---- MODULE Spec2Model ----
(***************************************************************************)
(* Model of the esphome-rs connection engine: wire framing, the request /  *)
(* reply protocol, the unsolicited-message interception loop, the state    *)
(* cache, and the typestate session (Connection -> Device ->               *)
(* AuthenticatedDevice).                                                   *)
(*                                                                         *)
(* Byte streams are kept run-length encoded (a sequence of runs, each a    *)
(* byte value and a repeat count), so that bodies longer than the 4096     *)
(* byte buffer of receive_message_body are modelled at their real length.  *)
(***************************************************************************)
EXTENDS Integers, Sequences, FiniteSets, TLC

(***************************************************************************)
(* MessageType (model.rs): numeric wire tags.                              *)
(***************************************************************************)
HelloRequest == 1
HelloResponse == 2
ConnectRequest == 3
ConnectResponse == 4
DisconnectRequest == 5
DisconnectResponse == 6
PingRequest == 7
PingResponse == 8
DeviceInfoRequest == 9
DeviceInfoResponse == 10
ListEntitiesRequest == 11
ListEntitiesBinarySensorResponse == 12
ListEntitiesCoverResponse == 13
ListEntitiesFanResponse == 14
ListEntitiesLightResponse == 15
ListEntitiesSensorResponse == 16
ListEntitiesSwitchResponse == 17
ListEntitiesTextSensorResponse == 18
ListEntitiesDoneResponse == 19
SubscribeStatesRequest == 20
BinarySensorStateResponse == 21
CoverStateResponse == 22
FanStateResponse == 23
LightStateResponse == 24
SensorStateResponse == 25
SwitchStateResponse == 26
TextSensorStateResponse == 27
ClimateStateResponse == 47
NumberStateResponse == 50
SelectStateResponse == 53
GetTimeRequest == 36
GetTimeResponse == 37
ListEntitiesServicesResponse == 41
ListEntitiesCameraResponse == 43
ListEntitiesClimateResponse == 46
ListEntitiesNumberResponse == 49
ListEntitiesSelectResponse == 52

\* The tags for which FromPrimitive::from_u32 yields Some(_).
MessageType ==
    (1..27) \cup {36, 37, 41, 43, 46, 47, 49, 50, 52, 53}

\* process_unsolicited: tags answered with a reply frame.
RequestPush == {PingRequest, DisconnectRequest, GetTimeRequest}

\* process_unsolicited: state pushes decoded into the cache.
ModeledState ==
    {SensorStateResponse, BinarySensorStateResponse, TextSensorStateResponse}

\* process_unsolicited: state pushes whose body is skipped.
SkippedState ==
    {CoverStateResponse, FanStateResponse, LightStateResponse,
     SwitchStateResponse, ClimateStateResponse, NumberStateResponse,
     SelectStateResponse}

\* list_entities: the tags that append an entity, and the entity kind of each.
EntityTags ==
    {ListEntitiesSensorResponse, ListEntitiesBinarySensorResponse,
     ListEntitiesCoverResponse, ListEntitiesFanResponse,
     ListEntitiesLightResponse, ListEntitiesSwitchResponse,
     ListEntitiesTextSensorResponse, ListEntitiesCameraResponse,
     ListEntitiesClimateResponse, ListEntitiesServicesResponse,
     ListEntitiesSelectResponse, ListEntitiesNumberResponse}

EntityKind(tp) ==
    CASE tp = ListEntitiesSensorResponse -> "Sensor"
      [] tp = ListEntitiesBinarySensorResponse -> "BinarySensor"
      [] tp = ListEntitiesCoverResponse -> "Cover"
      [] tp = ListEntitiesFanResponse -> "Fan"
      [] tp = ListEntitiesLightResponse -> "Light"
      [] tp = ListEntitiesSwitchResponse -> "Switch"
      [] tp = ListEntitiesTextSensorResponse -> "TextSensor"
      [] tp = ListEntitiesCameraResponse -> "Camera"
      [] tp = ListEntitiesClimateResponse -> "Climate"
      [] tp = ListEntitiesServicesResponse -> "Services"
      [] tp = ListEntitiesSelectResponse -> "Select"
      [] tp = ListEntitiesNumberResponse -> "Number"

(***************************************************************************)
(* Byte streams, run-length encoded.                                       *)
(***************************************************************************)
Run(b, n) == [b |-> b, n |-> n]

RECURSIVE SLen(_)
SLen(s) == IF s = <<>> THEN 0 ELSE s[1].n + SLen(Tail(s))

\* Concatenation, merging the runs that meet.
SCat(s, t) ==
    IF s = <<>> THEN t
    ELSE IF t = <<>> THEN s
    ELSE IF s[Len(s)].b = t[1].b
         THEN SubSeq(s, 1, Len(s) - 1)
                \o <<Run(t[1].b, s[Len(s)].n + t[1].n)>> \o Tail(t)
         ELSE s \o t

RECURSIVE FromSeq(_)
FromSeq(q) ==
    IF q = <<>> THEN <<>> ELSE SCat(<<Run(Head(q), 1)>>, FromSeq(Tail(q)))

Fill(b, n) == IF n = 0 THEN <<>> ELSE <<Run(b, n)>>

\* The stream without its first n bytes (n <= SLen(s)).
RECURSIVE SDrop(_, _)
SDrop(s, n) ==
    IF n = 0 \/ s = <<>> THEN s
    ELSE IF s[1].n > n THEN <<Run(s[1].b, s[1].n - n)>> \o Tail(s)
    ELSE SDrop(Tail(s), n - s[1].n)

\* The first n bytes of the stream (n <= SLen(s)).
RECURSIVE STake(_, _)
STake(s, n) ==
    IF n = 0 \/ s = <<>> THEN <<>>
    ELSE IF s[1].n >= n THEN <<Run(s[1].b, n)>>
    ELSE <<s[1]>> \o STake(Tail(s), n - s[1].n)

\* The i-th byte of the stream (1 <= i <= SLen(s)).
RECURSIVE ByteAt(_, _)
ByteAt(s, i) == IF i <= s[1].n THEN s[1].b ELSE ByteAt(Tail(s), i - s[1].n)

(***************************************************************************)
(* Varints (CodedOutputStream::write_raw_varint32 and                      *)
(* CodedInputStream::read_raw_varint32): base 128, least significant group *)
(* first, the high bit of a byte set when another byte follows.            *)
(***************************************************************************)
RECURSIVE write_raw_varint32(_)
write_raw_varint32(v) ==
    IF v < 128 THEN <<v>>
    ELSE <<(v % 128) + 128>> \o write_raw_varint32(v \div 128)

\* Reads one varint from the head of stream s. st is "ok", "short" (the
\* stream ends inside the varint) or "bad". TLC's integers end at 2^31 - 1:
\* a varint is read exactly up to four bytes (28 bits), which covers every
\* varint a stream of this model holds, and a longer one is reported "bad".
RECURSIVE ReadVarintFrom(_, _, _, _)
ReadVarintFrom(s, acc, mul, n) ==
    IF n = 4 THEN [st |-> "bad", v |-> 0, rest |-> s]
    ELSE IF s = <<>> THEN [st |-> "short", v |-> 0, rest |-> s]
    ELSE LET b == s[1].b
             r == SDrop(s, 1)
         IN IF b < 128
            THEN [st |-> "ok", v |-> acc + b * mul, rest |-> r]
            ELSE ReadVarintFrom(r, acc + (b - 128) * mul, mul * 128, n + 1)

read_raw_varint32(s) == ReadVarintFrom(s, 0, 1, 0)

(***************************************************************************)
(* Payload codec (protobuf's write_to_bytes / parse_from_bytes), kept      *)
(* abstract: a message is its field values, one byte per field; a missing  *)
(* field reads as its default 0, bytes after the last field are unknown    *)
(* fields and are ignored, and a body holding the byte 255 is malformed.   *)
(***************************************************************************)
BadByte == 255

\* A message: its field bytes, then pad zero bytes (the rest of a long field).
Msg(fields, pad) == [fields |-> fields, pad |-> pad]

write_to_bytes(message) == SCat(FromSeq(message.fields), Fill(0, message.pad))

Malformed(bytes) == \E i \in 1..Len(bytes) : bytes[i].b = BadByte

Field(bytes, i) == IF i <= SLen(bytes) THEN ByteAt(bytes, i) ELSE 0

(***************************************************************************)
(* Bounds of the model.                                                    *)
(***************************************************************************)
\* Frames the peer sends, and operations the caller starts, in a run from
\* Connection::new.
MaxPeerFrames == 3
MaxCalls == 4
\* The same, in a run from the authenticated session.
MaxAuthFrames == 3
MaxAuthCalls == 2

\* receive_message_body: the size of its buffer.
BufSize == 4096

\* connect: the client_info string "esphome.rs", as one field byte.
ClientInfo == 42

\* authenticate: the passwords a caller may pass.
Passwords == {1}

\* SystemTime::now() in seconds since the epoch; a negative value is a clock
\* set before the epoch (duration_since fails). The values are below 2^32,
\* where the cast as u32 changes nothing.
Clock == {7, -1}

\* get_last_state: the keys a caller asks about.
AskKeys == {1, 2}

(***************************************************************************)
(* What the peer may send: frames, by marker byte, type tag and payload    *)
(* (field bytes, then pad further zero bytes). A run draws its frames from *)
(* one menu.                                                               *)
(***************************************************************************)
PFrame(marker, tp, fields, pad) ==
    [marker |-> marker, tp |-> tp, fields |-> fields, pad |-> pad]

\* The handshake, pings, and frames that break the framing rules.
HandshakeMenu ==
    { PFrame(0, HelloResponse, <<>>, 0),
      PFrame(0, ConnectResponse, <<>>, 0),
      PFrame(0, ConnectResponse, <<1>>, 0),
      PFrame(0, PingRequest, <<>>, 0),
      PFrame(0, PingResponse, <<>>, 0),
      PFrame(0, 99, <<7, 7>>, 0),
      PFrame(1, PingRequest, <<>>, 0),
      PFrame(0, PingResponse, <<>>, BufSize + 1) }

\* Requests the peer pushes, and replies.
PushMenu ==
    { PFrame(0, PingRequest, <<>>, 0),
      PFrame(0, GetTimeRequest, <<>>, 0),
      PFrame(0, DisconnectRequest, <<>>, 0),
      PFrame(0, PingResponse, <<>>, 0),
      PFrame(0, GetTimeResponse, <<9>>, 0),
      PFrame(0, DisconnectResponse, <<>>, 0) }

\* State pushes.
StateMenu ==
    { PFrame(0, SensorStateResponse, <<1, 1>>, 0),
      PFrame(0, SensorStateResponse, <<1, 2>>, 0),
      PFrame(0, BinarySensorStateResponse, <<1, 1>>, 0),
      PFrame(0, TextSensorStateResponse, <<2, 3>>, 0),
      PFrame(0, CoverStateResponse, <<1, 1>>, 0),
      PFrame(0, PingResponse, <<>>, 0) }

\* The replies to ListEntitiesRequest, among pushes.
EnumMenu ==
    { PFrame(0, ListEntitiesSensorResponse, <<1, 5>>, 0),
      PFrame(0, ListEntitiesServicesResponse, <<2, 6, 4, 4>>, 0),
      PFrame(0, ListEntitiesDoneResponse, <<>>, 0),
      PFrame(0, PingRequest, <<>>, 0),
      PFrame(0, GetTimeRequest, <<>>, 0),
      PFrame(0, SensorStateResponse, <<1, 1>>, 0),
      PFrame(0, DeviceInfoResponse, <<3>>, 0),
      PFrame(0, 99, <<7, 7>>, 0) }

\* State pushes of three kinds for one key and one for another key, and a
\* reply.
KindMenu ==
    { PFrame(0, SensorStateResponse, <<1, 4>>, 0),
      PFrame(0, BinarySensorStateResponse, <<1, 1>>, 0),
      PFrame(0, TextSensorStateResponse, <<1, 3>>, 0),
      PFrame(0, SensorStateResponse, <<2, 4>>, 0),
      PFrame(0, PingResponse, <<>>, 0) }

\* get_last_state: the entities a caller asks about, by kind and key.
AskEntities ==
    { [kind |-> "Sensor", key |-> 1],
      [kind |-> "BinarySensor", key |-> 1],
      [kind |-> "Switch", key |-> 1],
      [kind |-> "Sensor", key |-> 2] }

\* Pushes whose handling can fail: requests to answer, a state push and one
\* with a body the decoder rejects; and a reply.
FailMenu ==
    { PFrame(0, PingRequest, <<>>, 0),
      PFrame(0, GetTimeRequest, <<>>, 0),
      PFrame(0, SensorStateResponse, <<1, 1>>, 0),
      PFrame(0, SensorStateResponse, <<1, BadByte>>, 0),
      PFrame(0, PingResponse, <<>>, 0) }

\* Frames at the edges of the framing: an unregistered tag, a marker that is
\* not 0, bodies of the buffer's size and one byte more.
FramingMenu ==
    { PFrame(0, 99, <<7, 7>>, 0),
      PFrame(1, PingRequest, <<>>, 0),
      PFrame(0, PingResponse, <<>>, 0),
      PFrame(0, PingResponse, <<>>, BufSize),
      PFrame(0, PingResponse, <<>>, BufSize + 1),
      PFrame(0, PingRequest, <<>>, BufSize + 1) }

PayloadOf(f) == write_to_bytes(Msg(f.fields, f.pad))

\* The bytes of one frame: marker, varint length, varint tag, payload.
FrameBytes(marker, tp, payload) ==
    SCat(FromSeq(<<marker>> \o write_raw_varint32(SLen(payload))
                   \o write_raw_varint32(tp)),
         payload)

(***************************************************************************)
(* State.                                                                  *)
(***************************************************************************)
VARIABLES
    cis,        \* Connection.cis: the bytes received and not yet read
    rclosed,    \* the peer has closed its side: a read past the end fails
    cos,        \* Connection.cos: the bytes written and flushed
    wbroken,    \* the transport refuses writes
    states,     \* Connection.states: key -> State
    phase,      \* which typestate object the caller holds
    call,       \* the operation in progress, blocked in a read
    entities,   \* list_entities: its accumulator
    result,     \* what the last finished operation returned
    trace,      \* history: calls, frames read, frames written, returns
    pframes,    \* history: the frames the peer has sent
    nPeer,      \* frames the peer may still send in this run
    nCalls,     \* operations the caller may still start in this run
    menu        \* the frames the peer draws from in this run

vars ==
    <<cis, rclosed, cos, wbroken, states, phase, call, entities, result,
      trace, pframes, nPeer, nCalls, menu>>

NoCall == [op |-> "none", reply_type |-> 0]
NoResult == [op |-> "none", st |-> "none", err |-> "none", val |-> 0]

\* Connection::new, held by the caller.
Init ==
    /\ cis = <<>>
    /\ rclosed = FALSE
    /\ cos = <<>>
    /\ wbroken = FALSE
    /\ states = <<>>
    /\ phase = "Connection"
    /\ call = NoCall
    /\ entities = <<>>
    /\ result = NoResult
    /\ trace = <<>>
    /\ pframes = <<>>
    /\ nPeer = MaxPeerFrames
    /\ nCalls = MaxCalls
    /\ menu = HandshakeMenu

(***************************************************************************)
(* The Connection's methods, as operators on the record                    *)
(*   c = [cis, cos, states, log, total]                                    *)
(* (log: the history entries the method adds; total: the bytes the peer    *)
(* has sent so far, for the offsets in the history), each yielding the     *)
(* record                                                                  *)
(* after the method and r, its Result: r.st is "Ok", "Err" (r.err the      *)
(* EspHomeError variant), "Panic", or "Blocked" (the read waits for bytes  *)
(* the peer has not sent).                                                 *)
(***************************************************************************)
RECURSIVE Total(_)
Total(frames) == IF frames = <<>> THEN 0 ELSE Head(frames).size + Total(Tail(frames))

Conn ==
    [cis |-> cis, cos |-> cos, states |-> states, log |-> <<>>,
     total |-> Total(pframes)]

\* The offset in the input of the next byte c reads.
Pos(c) == c.total - SLen(c.cis)

R(st, err, val) == [st |-> st, err |-> err, val |-> val]
Ok(val) == R("Ok", "none", val)
Err(e) == R("Err", e, 0)
Panic == R("Panic", "none", 0)
Blocked == R("Blocked", "none", 0)

\* A frame header read at offset at, hdr bytes long; how the frame was
\* treated, the body bytes read (used) and the bytes given to the decoder.
\* how: "push", "skip" or "fail" for a frame process_unsolicited took (handled,
\* skipped, ended by an error or a panic); for a header handed to the caller
\* of receive_message_header, "deliver", "mismatch" or "body" (the body read
\* failed) in receive_message, "entity", "done", "body" or "unexpected" in
\* list_entities, "header" in listen.
InEv(header, how, used, body) ==
    [k |-> "in", marker |-> header.marker, len |-> header.message_length,
     tp |-> header.message_type, at |-> header.at, hdr |-> header.hdr,
     how |-> how, used |-> used, body |-> body]
OutEv(tp, payload, by) ==
    [k |-> "out", tp |-> tp, payload |-> payload, by |-> by]
CallEv(op) == [k |-> "call", op |-> op]
AskEv(key) == [k |-> "call", op |-> "get_last_state", key |-> key]
RetEv(op, r) == [k |-> "ret", op |-> op, st |-> r.st, err |-> r.err, val |-> r.val]

\* A read of n bytes that the stream cannot serve: it waits, or fails once
\* the peer has closed.
ShortRead == IF rclosed THEN Err("Io") ELSE Blocked

\* A send_message without its flush: the frame stays in the buffer.
send_message_unflushed(c, message_type, message, by) ==
    IF wbroken
    THEN [c |-> c, r |-> Err("Io")]
    ELSE [c |-> [c EXCEPT
                   !.log = Append(@, OutEv(message_type,
                                           write_to_bytes(message), by))],
          r |-> Ok(0)]

\* send_message: encode, write marker 0, length, tag and body, flush.
send_message(c, message_type, message, by) ==
    LET message_bytes == write_to_bytes(message)
    IN IF wbroken
       THEN [c |-> c, r |-> Err("Io")]
       ELSE [c |-> [c EXCEPT
                      !.cos = SCat(@, FrameBytes(0, message_type, message_bytes)),
                      !.log = Append(@, OutEv(message_type, message_bytes, by))],
             r |-> Ok(0)]

\* A key that tells the kinds apart.
Entity_key_of_kind(entity) ==
    IF entity.kind = "Sensor" THEN entity.key ELSE entity.key + 16

\* Entity::key: self.info.key.
Entity_key(entity) == entity.key

\* get_last_state: a lookup in the map.
get_last_state(c, key) ==
    IF key \in DOMAIN c.states THEN Ok(<<"Some", c.states[key]>>)
    ELSE Ok(<<"None">>)

\* receive_message_body: read header.message_length bytes into the 4096 byte
\* buffer and parse them. Slicing the buffer beyond its size panics.
receive_message_body(c, header) ==
    LET len == header.message_length
    IN IF len > BufSize THEN [c |-> c, r |-> Panic]
       ELSE IF SLen(c.cis) < len
       THEN [c |-> [c EXCEPT !.cis = IF rclosed THEN <<>> ELSE @],
             r |-> ShortRead]
       ELSE LET data == STake(c.cis, len)
                c1 == [c EXCEPT !.cis = SDrop(@, len)]
            IN IF Malformed(data) THEN [c |-> c1, r |-> Err("Protobuf")]
               ELSE [c |-> c1, r |-> Ok(data)]

\* An ignore_bytes that skips nothing.
ignore_no_bytes(c, bytes) == [c |-> c, r |-> Ok(0)]

\* ignore_bytes: skip_raw_bytes.
ignore_bytes(c, bytes) ==
    IF SLen(c.cis) < bytes
    THEN [c |-> [c EXCEPT !.cis = IF rclosed THEN <<>> ELSE @], r |-> ShortRead]
    ELSE [c |-> [c EXCEPT !.cis = SDrop(@, bytes)], r |-> Ok(0)]

\* State: the variant and its value.
State(kind, v) == <<kind, v>>

StateOf(tp, msg) ==
    CASE tp = SensorStateResponse -> State("Measurement", Field(msg, 2))
      [] tp = BinarySensorStateResponse -> State("Binary", Field(msg, 2) # 0)
      [] tp = TextSensorStateResponse -> State("Text", Field(msg, 2))

\* A map that keeps the value it already holds for a key.
InsertIfAbsent(map, key, val) ==
    [x \in DOMAIN map \cup {key} |->
        IF x \in DOMAIN map THEN map[x] ELSE val]

\* HashMap::insert.
Insert(map, key, val) ==
    [x \in DOMAIN map \cup {key} |-> IF x = key THEN val ELSE map[x]]

\* A reply that repeats the request's own tag.
ReplyTypeEcho(tp) == tp

\* The reply process_unsolicited writes for a request the peer sends.
ReplyType(tp) ==
    CASE tp = PingRequest -> PingResponse
      [] tp = DisconnectRequest -> DisconnectResponse
      [] tp = GetTimeRequest -> GetTimeResponse

\* epoch_seconds: as_secs() as u32, one field byte in this codec.
ReplyMessage(tp, now) ==
    IF tp = GetTimeRequest THEN Msg(<<now>>, 0) ELSE Msg(<<>>, 0)

\* x, with one more history entry.
Logged(x, ev) == [c |-> [x.c EXCEPT !.log = Append(@, ev)], r |-> x.r]

\* The end of a process_unsolicited arm: s?; Ok(true).
Handled(s) == IF s.r.st # "Ok" THEN s ELSE [c |-> s.c, r |-> Ok(TRUE)]

\* The request arms without their reply: the body is read, nothing is written.
AnswerRequestSilent(c, header, now, b) ==
    IF b.r.st # "Ok" THEN b
    ELSE Handled(Logged(b, InEv(header, "push", SLen(c.cis) - SLen(b.c.cis),
                                b.r.val)))

\* process_unsolicited, the arms PingRequest, DisconnectRequest and
\* GetTimeRequest, b the Result of receive_message_body: reply, Ok(true).
AnswerRequest(c, header, now, b) ==
    IF b.r.st # "Ok" THEN b
    ELSE IF header.message_type = GetTimeRequest /\ now < 0
    THEN [c |-> b.c, r |-> Err("SystemTime")]
    ELSE Handled(send_message(
            Logged(b, InEv(header, "push", SLen(c.cis) - SLen(b.c.cis),
                           b.r.val)).c,
            ReplyType(header.message_type),
            ReplyMessage(header.message_type, now), "auto"))

\* process_unsolicited, the arms SensorStateResponse, BinarySensorStateResponse
\* and TextSensorStateResponse, b the Result of receive_message_body:
\* states.insert(ssr.key, ...), Ok(true).
StoreState(c, header, b) ==
    IF b.r.st # "Ok" THEN b
    ELSE [c |-> [b.c EXCEPT
                   !.states = Insert(@, Field(b.r.val, 1),
                                     StateOf(header.message_type, b.r.val)),
                   !.log = Append(@,
                      InEv(header, "push", SLen(c.cis) - SLen(b.c.cis),
                           b.r.val))],
          r |-> Ok(TRUE)]

\* process_unsolicited, the arm of the other state pushes, g the Result of
\* ignore_bytes: Ok(true).
SkipState(c, header, g) ==
    IF g.r.st # "Ok" THEN g
    ELSE Handled(Logged(g, InEv(header, "skip", SLen(c.cis) - SLen(g.c.cis),
                                <<>>)))

\* process_unsolicited: Ok(TRUE) when the frame was handled here, Ok(FALSE)
\* when it is for the caller; an unregistered tag panics.
process_unsolicited(c, header, now) ==
    IF header.message_type \in RequestPush
    THEN AnswerRequest(c, header, now, receive_message_body(c, header))
    ELSE IF header.message_type \in ModeledState
    THEN StoreState(c, header, receive_message_body(c, header))
    ELSE IF header.message_type \in SkippedState
    THEN SkipState(c, header, ignore_bytes(c, header.message_length))
    ELSE IF header.message_type \in MessageType
    THEN [c |-> c, r |-> Ok(FALSE)]
    ELSE [c |-> c, r |-> Panic]

\* A read that ends before its last byte: it leaves the stream as it is and
\* waits, or, the peer having closed, takes what is left and fails.
Short(c) == [c |-> [c EXCEPT !.cis = IF rclosed THEN <<>> ELSE @], r |-> ShortRead]

\* receive_message_header: the MessageHeader, from the byte zero, the length
\* l and the tag t as read.
MakeHeader(c, zero, l, t) ==
    IF t.st = "short" THEN Short(c)
    ELSE IF t.st = "bad" THEN [c |-> [c EXCEPT !.cis = t.rest], r |-> Err("Protobuf")]
    ELSE [c |-> [c EXCEPT !.cis = t.rest],
          r |-> Ok([marker |-> zero, message_length |-> l.v,
                    message_type |-> t.v, at |-> Pos(c),
                    hdr |-> SLen(c.cis) - SLen(t.rest)])]

\* receive_message_header: after the byte zero and the length l, the tag.
ReadTag(c, zero, l) ==
    IF l.st = "short" THEN Short(c)
    ELSE IF l.st = "bad" THEN [c |-> [c EXCEPT !.cis = l.rest], r |-> Err("Protobuf")]
    ELSE MakeHeader(c, zero, l, read_raw_varint32(l.rest))

\* The reads at the top of receive_message_header's loop: one byte, which
\* is not looked at, then the varint length, then the varint tag.
ReadHeader(c) ==
    IF c.cis = <<>> THEN Short(c)
    ELSE ReadTag(c, c.cis[1].b, read_raw_varint32(SDrop(c.cis, 1)))

\* A receive_message_header that returns every header it reads, handled or not.
RouteReturning(h, p) ==
    IF p.r.st # "Ok"
    THEN Logged(p, InEv(h.r.val, "fail", SLen(h.c.cis) - SLen(p.c.cis), <<>>))
    ELSE [c |-> p.c, r |-> Ok(<<"header", h.r.val>>)]

\* A receive_message_header that reads on after an error of
\* process_unsolicited.
RouteRetrying(h, p) ==
    IF p.r.st = "Panic"
    THEN Logged(p, InEv(h.r.val, "fail", SLen(h.c.cis) - SLen(p.c.cis), <<>>))
    ELSE IF p.r.st = "Err"
    THEN [c |-> Logged(p, InEv(h.r.val, "fail",
                               SLen(h.c.cis) - SLen(p.c.cis), <<>>)).c,
          r |-> Ok(<<"again">>)]
    ELSE IF p.r.val THEN [c |-> p.c, r |-> Ok(<<"again">>)]
    ELSE [c |-> p.c, r |-> Ok(<<"header", h.r.val>>)]

\* receive_message_header: p the Result of process_unsolicited on the header
\* read (h): Ok(<<"again">>) to loop, Ok(<<"header", header>>) to return it.
Route(h, p) ==
    IF p.r.st # "Ok"
    THEN Logged(p, InEv(h.r.val, "fail", SLen(h.c.cis) - SLen(p.c.cis), <<>>))
    ELSE IF p.r.val THEN [c |-> p.c, r |-> Ok(<<"again">>)]
    ELSE [c |-> p.c, r |-> Ok(<<"header", h.r.val>>)]

\* The value of an expression computed once: the element of the singleton S.
The(S) == CHOOSE x \in S : TRUE

Dispatch(h, now) ==
    IF h.r.st # "Ok" THEN h
    ELSE The({Route(h, p) : p \in {process_unsolicited(h.c, h.r.val, now)}})

\* One pass of receive_message_header's loop.
HeaderPass(c, now) == The({Dispatch(h, now) : h \in {ReadHeader(c)}})

\* A receive_message that records the reply it decodes in the cache.
DeliverCaching(c, header, b) ==
    IF b.r.st # "Ok"
    THEN Logged(b, InEv(header, "body", SLen(c.cis) - SLen(b.c.cis), <<>>))
    ELSE [c |-> [b.c EXCEPT
                   !.states = Insert(@, header.message_type, State("Text", 0)),
                   !.log = Append(@,
                      InEv(header, "deliver", SLen(c.cis) - SLen(b.c.cis),
                           b.r.val))],
          r |-> Ok(<<"msg", b.r.val>>)]

\* receive_message: the body of the header it accepted, b the Result of
\* receive_message_body.
Deliver(c, header, b) ==
    IF b.r.st # "Ok"
    THEN Logged(b, InEv(header, "body", SLen(c.cis) - SLen(b.c.cis), <<>>))
    ELSE [c |-> Logged(b, InEv(header, "deliver", SLen(c.cis) - SLen(b.c.cis),
                            b.r.val)).c,
          r |-> Ok(<<"msg", b.r.val>>)]

\* receive_message without the check of the tag: any header's body is
\* decoded as the reply.
ExpectAny(p, message_type) ==
    IF p.r.st # "Ok" THEN p
    ELSE IF p.r.val[1] = "again" THEN p
    ELSE Deliver(p.c, p.r.val[2], receive_message_body(p.c, p.r.val[2]))

\* A receive_message that skips the body of the reply it rejects.
ExpectSkipping(p, message_type) ==
    IF p.r.st # "Ok" THEN p
    ELSE IF p.r.val[1] = "again" THEN p
    ELSE IF p.r.val[2].message_type # message_type
    THEN [c |-> Logged(ignore_bytes(p.c, p.r.val[2].message_length),
                       InEv(p.r.val[2], "mismatch",
                            p.r.val[2].message_length, <<>>)).c,
          r |-> R("Err", "UnexpectedResponse",
                  <<message_type, p.r.val[2].message_type>>)]
    ELSE Deliver(p.c, p.r.val[2], receive_message_body(p.c, p.r.val[2]))

\* receive_message after receive_message_header (p): the check of the tag.
Expect(p, message_type) ==
    IF p.r.st # "Ok" THEN p
    ELSE IF p.r.val[1] = "again" THEN p
    ELSE IF p.r.val[2].message_type # message_type
    THEN [c |-> Logged(p, InEv(p.r.val[2], "mismatch", 0, <<>>)).c,
          r |-> R("Err", "UnexpectedResponse",
                  <<message_type, p.r.val[2].message_type>>)]
    ELSE Deliver(p.c, p.r.val[2], receive_message_body(p.c, p.r.val[2]))

\* receive_message, one pass of its header loop: Ok(<<"again">>) while it
\* keeps reading, Ok(<<"msg", m>>) when it returns the decoded reply.
receive_message(c, message_type, now) ==
    The({Expect(p, message_type) : p \in {HeaderPass(c, now)}})

\* Entity: kind, EntityInfo{name, key} and ExtendedInfo{object_id, unique_id}
\* (Services carries no ExtendedInfo). Fields: key, name, object_id, unique_id.
Entity(tp, m) ==
    IF tp = ListEntitiesServicesResponse
    THEN [kind |-> EntityKind(tp), key |-> Field(m, 1), name |-> Field(m, 2)]
    ELSE [kind |-> EntityKind(tp), key |-> Field(m, 1), name |-> Field(m, 2),
          object_id |-> Field(m, 3), unique_id |-> Field(m, 4)]

\* The arms of list_entities with the entity put in front of the list.
CollectInFront(c, header, acc, b) ==
    IF b.r.st # "Ok"
    THEN Logged(b, InEv(header, "body", SLen(c.cis) - SLen(b.c.cis), <<>>))
    ELSE IF header.message_type = ListEntitiesDoneResponse
    THEN [c |-> Logged(b, InEv(header, "done", SLen(c.cis) - SLen(b.c.cis),
                            b.r.val)).c,
          r |-> Ok(<<"done", acc>>)]
    ELSE [c |-> Logged(b, InEv(header, "entity", SLen(c.cis) - SLen(b.c.cis),
                            b.r.val)).c,
          r |-> Ok(<<"again", <<Entity(header.message_type, b.r.val)>> \o acc>>)]

\* list_entities, an arm that reads a body (b the Result of
\* receive_message_body): push the entity, or break on the Done sentinel.
Collect(c, header, acc, b) ==
    IF b.r.st # "Ok"
    THEN Logged(b, InEv(header, "body", SLen(c.cis) - SLen(b.c.cis), <<>>))
    ELSE IF header.message_type = ListEntitiesDoneResponse
    THEN [c |-> Logged(b, InEv(header, "done", SLen(c.cis) - SLen(b.c.cis),
                            b.r.val)).c,
          r |-> Ok(<<"done", acc>>)]
    ELSE [c |-> Logged(b, InEv(header, "entity", SLen(c.cis) - SLen(b.c.cis),
                            b.r.val)).c,
          r |-> Ok(<<"again", Append(acc, Entity(header.message_type, b.r.val))>>)]

\* A list_entities that starts its list anew after a push was handled.
MatchForgetting(p, acc) ==
    IF p.r.st # "Ok" THEN p
    ELSE IF p.r.val[1] = "again" THEN [c |-> p.c, r |-> Ok(<<"again", <<>>>>)]
    ELSE IF p.r.val[2].message_type \in EntityTags \cup {ListEntitiesDoneResponse}
    THEN Collect(p.c, p.r.val[2], acc, receive_message_body(p.c, p.r.val[2]))
    ELSE [c |-> Logged(p, InEv(p.r.val[2], "unexpected", 0, <<>>)).c,
          r |-> Panic]

\* list_entities after receive_message_header (p): the match on the tag.
Match(p, acc) ==
    IF p.r.st # "Ok" THEN p
    ELSE IF p.r.val[1] = "again" THEN [c |-> p.c, r |-> Ok(<<"again", acc>>)]
    ELSE IF p.r.val[2].message_type \in EntityTags \cup {ListEntitiesDoneResponse}
    THEN Collect(p.c, p.r.val[2], acc, receive_message_body(p.c, p.r.val[2]))
    ELSE [c |-> Logged(p, InEv(p.r.val[2], "unexpected", 0, <<>>)).c,
          r |-> Panic]

\* list_entities, one pass of its loop over acc: Ok(<<"again", acc>>) while
\* it keeps reading, Ok(<<"done", acc>>) when it returns.
list_entities_pass(c, acc, now) ==
    The({Match(p, acc) : p \in {HeaderPass(c, now)}})

\* The replies, with authenticate not looking at invalid_password.
ReplyAccepting(op, msg) ==
    CASE op = "get_time" -> Ok(Field(msg, 1))
      [] op \in {"connect", "device_info"} -> Ok(msg)
      [] OTHER -> Ok(0)

\* What each request operation makes of the reply it awaited.
\* authenticate: ConnectResponse.invalid_password is field 1.
Reply(op, msg) ==
    CASE op = "authenticate" ->
            IF Field(msg, 1) # 0 THEN Err("InvalidPassword") ELSE Ok(0)
      [] op = "get_time" -> Ok(Field(msg, 1))
      [] op \in {"connect", "device_info"} -> Ok(msg)
      [] OTHER -> Ok(0)

(***************************************************************************)
(* The session: which object the caller holds. connect consumes the        *)
(* Connection, authenticate and disconnect consume the Device; a consumed  *)
(* object is dropped unless the method hands back its successor.           *)
(***************************************************************************)
\* The session with a disconnect that hands the Device back.
PhaseAfterKeeping(op, ok) ==
    CASE op = "connect" -> IF ok THEN "Device" ELSE "Dropped"
      [] op = "authenticate" -> IF ok THEN "AuthenticatedDevice" ELSE "Dropped"
      [] OTHER -> phase

PhaseAfter(op, ok) ==
    CASE op = "connect" -> IF ok THEN "Device" ELSE "Dropped"
      [] op = "authenticate" -> IF ok THEN "AuthenticatedDevice" ELSE "Dropped"
      [] op = "disconnect" -> "Dropped"
      [] OTHER -> phase

Commit(c, extra) ==
    /\ cis' = c.cis
    /\ cos' = c.cos
    /\ states' = c.states
    /\ trace' = trace \o c.log \o extra

\* The operation op ends with r: a Result returned to the caller, or a panic.
Returns(c, op, r) ==
    /\ Commit(c, <<RetEv(op, r)>>)
    /\ result' = [op |-> op, st |-> r.st, err |-> r.err, val |-> r.val]
    /\ call' = NoCall
    /\ entities' = <<>>
    /\ phase' = IF r.st = "Panic" THEN "Aborted" ELSE PhaseAfter(op, r.st = "Ok")

CanCall ==
    /\ call = NoCall
    /\ phase \in {"Connection", "Device", "AuthenticatedDevice"}
    /\ nCalls > 0

\* s: the Result of the operation's send_message.
Sent(s, op, reply_type) ==
    IF s.r.st # "Ok"
    THEN Returns(s.c, op, s.r)
    ELSE /\ Commit(s.c, <<>>)
         /\ call' = [op |-> op, reply_type |-> reply_type]
         /\ UNCHANGED <<phase, result, entities>>

\* An operation that sends one request frame and then awaits reply_type.
Request(op, message_type, message, reply_type) ==
    /\ CanCall
    /\ nCalls' = nCalls - 1
    /\ UNCHANGED <<rclosed, wbroken, pframes, nPeer, menu>>
    /\ Sent(send_message([Conn EXCEPT !.log = <<CallEv(op)>>],
                         message_type, message, "caller"),
            op, reply_type)

connect ==
    /\ phase = "Connection"
    /\ Request("connect", HelloRequest, Msg(<<ClientInfo>>, 0), HelloResponse)

\* authenticate as a method the Connection has too.
authenticate_on_Connection ==
    /\ phase \in {"Connection", "Device"}
    /\ \E password \in Passwords :
          Request("authenticate", ConnectRequest, Msg(<<password>>, 0),
                  ConnectResponse)

authenticate ==
    /\ phase = "Device"
    /\ \E password \in Passwords :
          Request("authenticate", ConnectRequest, Msg(<<password>>, 0),
                  ConnectResponse)

ping ==
    /\ phase \in {"Device", "AuthenticatedDevice"}
    /\ Request("ping", PingRequest, Msg(<<>>, 0), PingResponse)

disconnect ==
    /\ phase \in {"Device", "AuthenticatedDevice"}
    /\ Request("disconnect", DisconnectRequest, Msg(<<>>, 0), DisconnectResponse)

\* get_time as a method of Device.
get_time_on_Device ==
    /\ phase \in {"Device", "AuthenticatedDevice"}
    /\ Request("get_time", GetTimeRequest, Msg(<<>>, 0), GetTimeResponse)

get_time ==
    /\ phase = "AuthenticatedDevice"
    /\ Request("get_time", GetTimeRequest, Msg(<<>>, 0), GetTimeResponse)

device_info ==
    /\ phase = "AuthenticatedDevice"
    /\ Request("device_info", DeviceInfoRequest, Msg(<<>>, 0), DeviceInfoResponse)

list_entities ==
    /\ phase = "AuthenticatedDevice"
    /\ Request("list_entities", ListEntitiesRequest, Msg(<<>>, 0), 0)

\* A subscribe_states that stays pending for a reply after its send_message.
ForwardPending(s, op) == Sent(s, op, 0)

\* s: the Result of subscribe_states' send_message, which it returns.
Forward(s, op) == Returns(s.c, op, s.r)

\* subscribe_states: send_message only.
subscribe_states ==
    /\ phase = "AuthenticatedDevice"
    /\ CanCall
    /\ nCalls' = nCalls - 1
    /\ UNCHANGED <<rclosed, wbroken, pframes, nPeer, menu>>
    /\ Forward(send_message([Conn EXCEPT !.log = <<CallEv("subscribe_states")>>],
                            SubscribeStatesRequest, Msg(<<>>, 0), "caller"),
               "subscribe_states")

\* listen: receive_message_header, the header returned is dropped.
listen ==
    /\ phase = "AuthenticatedDevice"
    /\ CanCall
    /\ nCalls' = nCalls - 1
    /\ Commit(Conn, <<CallEv("listen")>>)
    /\ call' = [op |-> "listen", reply_type |-> 0]
    /\ UNCHANGED <<rclosed, wbroken, pframes, nPeer, menu, phase, result,
                   entities>>

GetLastState ==
    /\ CanCall
    /\ nCalls' = nCalls - 1
    /\ UNCHANGED <<rclosed, wbroken, pframes, nPeer, menu>>
    /\ \E key \in AskKeys :
          Returns([Conn EXCEPT !.log = <<AskEv(key)>>],
                  "get_last_state", get_last_state(Conn, key))

\* The call of get_last_state with the entity asked about.
AskEntityEv(entity) ==
    [k |-> "call", op |-> "get_last_state", key |-> entity.key,
     kind |-> entity.kind]

\* get_last_state(entity): the lookup of entity.key().
GetLastStateOf ==
    /\ CanCall
    /\ nCalls' = nCalls - 1
    /\ UNCHANGED <<rclosed, wbroken, pframes, nPeer, menu>>
    /\ \E entity \in AskEntities :
          Returns([Conn EXCEPT !.log = <<AskEntityEv(entity)>>],
                  "get_last_state", get_last_state(Conn, Entity_key(entity)))

(***************************************************************************)
(* The pending operation's next pass over the input.                       *)
(***************************************************************************)
RequestOps ==
    {"connect", "authenticate", "ping", "disconnect", "get_time", "device_info"}

\* A pass of a pending operation that did not end it.
Continue(c, acc) ==
    /\ Commit(c, <<>>)
    /\ entities' = acc
    /\ UNCHANGED <<phase, call, result>>

\* p: the Result of one pass of receive_message.
ReceiveResume(p) ==
    /\ p.r.st # "Blocked"
    /\ IF p.r.st # "Ok" THEN Returns(p.c, call.op, p.r)
       ELSE IF p.r.val[1] = "again" THEN Continue(p.c, entities)
       ELSE Returns(p.c, call.op, Reply(call.op, p.r.val[2]))

ReceiveStep ==
    /\ call.op \in RequestOps
    /\ UNCHANGED <<rclosed, wbroken, pframes, nPeer, nCalls, menu>>
    /\ \E now \in Clock :
          \E p \in {receive_message(Conn, call.reply_type, now)} :
             ReceiveResume(p)

\* p: the Result of one pass of receive_message_header, called by listen.
ListenResume(p) ==
    /\ p.r.st # "Blocked"
    /\ IF p.r.st # "Ok" THEN Returns(p.c, call.op, p.r)
       ELSE IF p.r.val[1] = "again" THEN Continue(p.c, entities)
       ELSE Returns(Logged(p, InEv(p.r.val[2], "header", 0, <<>>)).c, call.op,
                    Ok(0))

ListenStep ==
    /\ call.op = "listen"
    /\ UNCHANGED <<rclosed, wbroken, pframes, nPeer, nCalls, menu>>
    /\ \E now \in Clock :
          \E p \in {HeaderPass(Conn, now)} : ListenResume(p)

\* p: the Result of one pass of list_entities' loop.
ListEntitiesResume(p) ==
    /\ p.r.st # "Blocked"
    /\ IF p.r.st # "Ok" THEN Returns(p.c, call.op, p.r)
       ELSE IF p.r.val[1] = "again" THEN Continue(p.c, p.r.val[2])
       ELSE Returns(p.c, call.op, Ok(p.r.val[2]))

ListEntitiesStep ==
    /\ call.op = "list_entities"
    /\ UNCHANGED <<rclosed, wbroken, pframes, nPeer, nCalls, menu>>
    /\ \E now \in Clock :
          \E p \in {list_entities_pass(Conn, entities, now)} :
             ListEntitiesResume(p)

(***************************************************************************)
(* The peer and the transport.                                             *)
(***************************************************************************)
Alive == phase \in {"Connection", "Device", "AuthenticatedDevice"}

PeerSend ==
    /\ Alive
    /\ ~rclosed
    /\ nPeer > 0
    /\ nPeer' = nPeer - 1
    /\ \E f \in menu :
          /\ cis' = SCat(cis, FrameBytes(f.marker, f.tp, PayloadOf(f)))
          /\ pframes' = Append(pframes,
                [marker |-> f.marker, tp |-> f.tp, payload |-> PayloadOf(f),
                 size |-> SLen(FrameBytes(f.marker, f.tp, PayloadOf(f)))])
    /\ UNCHANGED <<rclosed, cos, wbroken, states, phase, call, entities,
                   result, trace, nCalls, menu>>

\* The peer closes its side. (While no operation reads, the close shows only
\* once one does: it is taken while an operation is pending.)
PeerClose ==
    /\ Alive
    /\ call # NoCall
    /\ ~rclosed
    /\ rclosed' = TRUE
    /\ UNCHANGED <<cis, cos, wbroken, states, phase, call, entities, result,
                   trace, pframes, nPeer, nCalls, menu>>

WriteBreak ==
    /\ Alive
    /\ ~wbroken
    /\ wbroken' = TRUE
    /\ UNCHANGED <<cis, rclosed, cos, states, phase, call, entities, result,
                   trace, pframes, nPeer, nCalls, menu>>

\* The runs from Connection::new: the handshake and what follows it, with a
\* peer that may close and a transport that may refuse writes. (The cache
\* stays empty in these runs: get_last_state is called in the runs of
\* NextState.)
Next ==
    \/ connect
    \/ authenticate
    \/ ping
    \/ disconnect
    \/ get_time
    \/ device_info
    \/ list_entities
    \/ subscribe_states
    \/ listen
    \/ ReceiveStep
    \/ ListenStep
    \/ ListEntitiesStep
    \/ PeerSend
    \/ PeerClose
    \/ WriteBreak

Spec == Init /\ [][Next]_vars

\* The runs from Connection::new in which a pending operation's loop goes on
\* whenever its next read can end: the thread that called the operation runs
\* it, and a blocking read ends once its bytes are there or the peer closed.
SpecFair ==
    /\ Spec
    /\ WF_vars(ReceiveStep)
    /\ WF_vars(ListenStep)
    /\ WF_vars(ListEntitiesStep)

(***************************************************************************)
(* The session after a handshake that went well: connect, HelloResponse,   *)
(* authenticate, ConnectResponse with the flag clear, every byte read. The *)
(* runs from here draw the peer's frames from one menu, over a transport   *)
(* that does not fail. get_last_state, which only reads the cache, is      *)
(* called in the runs whose frames are state pushes.                       *)
(***************************************************************************)
HelloHeader ==
    [marker |-> 0, message_length |-> 0, message_type |-> HelloResponse,
     at |-> 0, hdr |-> 3]
ConnectHeader ==
    [marker |-> 0, message_length |-> 0, message_type |-> ConnectResponse,
     at |-> 3, hdr |-> 3]

AuthFrames ==
    << [marker |-> 0, tp |-> HelloResponse, payload |-> <<>>, size |-> 3],
       [marker |-> 0, tp |-> ConnectResponse, payload |-> <<>>, size |-> 3] >>

AuthCos ==
    SCat(FrameBytes(0, HelloRequest, write_to_bytes(Msg(<<ClientInfo>>, 0))),
         FrameBytes(0, ConnectRequest, write_to_bytes(Msg(<<1>>, 0))))

AuthTrace ==
    << CallEv("connect"),
       OutEv(HelloRequest, write_to_bytes(Msg(<<ClientInfo>>, 0)), "caller"),
       InEv(HelloHeader, "deliver", 0, <<>>),
       RetEv("connect", Ok(<<>>)),
       CallEv("authenticate"),
       OutEv(ConnectRequest, write_to_bytes(Msg(<<1>>, 0)), "caller"),
       InEv(ConnectHeader, "deliver", 0, <<>>),
       RetEv("authenticate", Ok(0)) >>

InitAuth(frames) ==
    /\ cis = <<>>
    /\ rclosed = FALSE
    /\ cos = AuthCos
    /\ wbroken = FALSE
    /\ states = <<>>
    /\ phase = "AuthenticatedDevice"
    /\ call = NoCall
    /\ entities = <<>>
    /\ result = [op |-> "authenticate", st |-> "Ok", err |-> "none", val |-> 0]
    /\ trace = AuthTrace
    /\ pframes = AuthFrames
    /\ nPeer = MaxAuthFrames
    /\ nCalls = MaxAuthCalls
    /\ menu = frames

InitPush == InitAuth(PushMenu)
InitState == InitAuth(StateMenu)
InitEnum == InitAuth(EnumMenu)
InitFraming == InitAuth(FramingMenu)

NextAuth ==
    \/ ping
    \/ disconnect
    \/ get_time
    \/ device_info
    \/ list_entities
    \/ subscribe_states
    \/ listen
    \/ ReceiveStep
    \/ ListenStep
    \/ ListEntitiesStep
    \/ PeerSend

NextState ==
    \/ NextAuth
    \/ GetLastState

SpecPush == InitPush /\ [][NextAuth]_vars
InitKinds == InitAuth(KindMenu)

NextKinds ==
    \/ NextAuth
    \/ GetLastStateOf

SpecKinds == InitKinds /\ [][NextKinds]_vars
InitFail == InitAuth(FailMenu)

\* The authenticated session over a transport that may refuse writes.
NextFail ==
    \/ NextAuth
    \/ WriteBreak

SpecFail == InitFail /\ [][NextFail]_vars
SpecState == InitState /\ [][NextState]_vars
SpecEnum == InitEnum /\ [][NextAuth]_vars
SpecFraming == InitFraming /\ [][NextAuth]_vars

\* The state these runs start from, as the runs from Connection::new reach it.
AuthReached ==
    /\ cis = <<>>
    /\ ~rclosed
    /\ cos = AuthCos
    /\ ~wbroken
    /\ states = <<>>
    /\ phase = "AuthenticatedDevice"
    /\ call = NoCall
    /\ entities = <<>>
    /\ result = [op |-> "authenticate", st |-> "Ok", err |-> "none", val |-> 0]
    /\ trace = AuthTrace
    /\ pframes = AuthFrames

(***************************************************************************)
(* The framing alone: what send_message writes is carried to the input and *)
(* read back, header first, then the body.                                 *)
(***************************************************************************)
\* The messages sent: bodies of 0 to 2 bytes, of 127 and 128 bytes (where
\* the length's varint grows to two bytes) and around the buffer's size.
RTPads == {0, 125, 126, BufSize - 2, BufSize - 1, BufSize}
RTMessages == {Msg(f, pad) : f \in {<<>>, <<1>>, <<3, 2>>}, pad \in RTPads}

InitRT ==
    /\ cis = <<>>
    /\ rclosed = FALSE
    /\ cos = <<>>
    /\ wbroken = FALSE
    /\ states = <<>>
    /\ phase = "Connection"
    /\ call = NoCall
    /\ entities = <<>>
    /\ result = NoResult
    /\ trace = <<>>
    /\ pframes = <<>>
    /\ nPeer = 0
    /\ nCalls = 0
    /\ menu = {}

\* s: the Result of send_message.
RTSent(s) ==
    /\ cos' = s.c.cos
    /\ trace' = s.c.log
    /\ result' = NoResult

RTSend ==
    /\ phase = "Connection"
    /\ cis = <<>>
    /\ cos = <<>>
    /\ \E message_type \in MessageType, message \in RTMessages :
          RTSent(send_message(Conn, message_type, message, "caller"))
    /\ UNCHANGED <<cis, rclosed, wbroken, states, phase, call, entities,
                   pframes, nPeer, nCalls, menu>>

\* The transport: the bytes flushed arrive at the reader.
RTWire ==
    /\ cos # <<>>
    /\ cis' = SCat(cis, cos)
    /\ cos' = <<>>
    /\ UNCHANGED <<rclosed, wbroken, states, phase, call, entities, result,
                   trace, pframes, nPeer, nCalls, menu>>

\* The body of the header read (h).
RTBody(h) == IF h.r.st # "Ok" THEN h ELSE receive_message_body(h.c, h.r.val)

\* h: the header as read, b: the body as read after it. The result keeps
\* how the header's read ended (hst), the header, the input as it was after
\* the header, and the bytes decoded.
RTResume(h, b) ==
    /\ b.r.st # "Blocked"
    /\ cis' = b.c.cis
    /\ phase' = IF b.r.st = "Panic" THEN "Aborted" ELSE phase
    /\ result' = [op |-> "read", st |-> b.r.st, err |-> b.r.err,
                  val |-> [hst |-> h.r.st, header |-> h.r.val,
                           rest |-> h.c.cis, body |-> b.r.val]]

RTRead ==
    /\ phase = "Connection"
    /\ cis # <<>>
    /\ RTResume(ReadHeader(Conn), RTBody(ReadHeader(Conn)))
    /\ UNCHANGED <<rclosed, cos, wbroken, states, call, entities, trace,
                   pframes, nPeer, nCalls, menu>>

NextRT ==
    \/ RTSend
    \/ RTWire
    \/ RTRead

SpecRT == InitRT /\ [][NextRT]_vars

(***************************************************************************)
(* Reading the history.                                                    *)
(***************************************************************************)
Idx == 1..Len(trace)

\* The call that opened the operation the j-th entry belongs to (0: none).
RECURSIVE CallAt(_)
CallAt(j) ==
    IF j = 0 THEN 0 ELSE IF trace[j].k = "call" THEN j ELSE CallAt(j - 1)

OpAt(j) == IF CallAt(j) = 0 THEN "none" ELSE trace[CallAt(j)].op

IsIn(e) == e.k = "in"
IsOut(e) == e.k = "out"

\* The frames read, and the frames written, from entry i + 1 to entry j.
InsOf(i, j) == SelectSeq(SubSeq(trace, i + 1, j), IsIn)
OutsOf(i, j) == SelectSeq(SubSeq(trace, i + 1, j), IsOut)

RECURSIVE Rep(_, _)
Rep(x, k) == IF k = 0 THEN <<>> ELSE <<x>> \o Rep(x, k - 1)

\* The bytes the frames written make on the wire.
RECURSIVE WireOf(_)
WireOf(evs) ==
    IF evs = <<>> THEN <<>>
    ELSE SCat(FrameBytes(0, Head(evs).tp, Head(evs).payload), WireOf(Tail(evs)))

\* The offset at which the f-th frame of the peer starts.
StartOf(f) == Total(SubSeq(pframes, 1, f - 1))

\* The kinds process_unsolicited handles itself.
PushKind == RequestPush \cup ModeledState \cup SkippedState

\* The reply each request operation names as the one it awaits.
Awaited(op) ==
    CASE op = "connect" -> HelloResponse
      [] op = "authenticate" -> ConnectResponse
      [] op = "ping" -> PingResponse
      [] op = "disconnect" -> DisconnectResponse
      [] op = "get_time" -> GetTimeResponse
      [] op = "device_info" -> DeviceInfoResponse

(***************************************************************************)
(* C1                                                                      *)
(***************************************************************************)
\* A PingRequest, as the peer encodes it: marker 0, an empty body.
PingFrame(e) == e.marker = 0 /\ e.tp = PingRequest /\ e.len = 0

\* Entry j is the PingResponse a ping reads after PingRequest frames only.
C1Case(j) ==
    /\ IsIn(trace[j])
    /\ OpAt(j) = "ping"
    /\ trace[j].marker = 0
    /\ trace[j].tp = PingResponse
    /\ trace[j].len = 0
    /\ \A m \in (CallAt(j) + 1)..(j - 1) : IsIn(trace[m]) => PingFrame(trace[m])

\* C1 (push transparency): when a ping reads k >= 0 PingRequest frames and
\* then the PingResponse it awaits, it has written its own PingRequest frame
\* followed by exactly k PingResponse frames and nothing else, it returns Ok
\* with the PingResponse decoded, and the bytes on the wire are those frames.
C1_PushTransparency ==
    /\ cos = WireOf(OutsOf(0, Len(trace)))
    /\ \A j \in Idx :
          C1Case(j) =>
             /\ OutsOf(CallAt(j), j)
                  = <<OutEv(PingRequest, <<>>, "caller")>>
                      \o Rep(OutEv(PingResponse, <<>>, "auto"),
                             Len(InsOf(CallAt(j), j - 1)))
             /\ trace[j].how = "deliver"
             /\ j < Len(trace)
             /\ trace[j + 1] = RetEv("ping", Ok(0))

\* A ping answered two PingRequest frames, then got its reply and returned.
C1_Witness ==
    \E j \in Idx :
       /\ C1Case(j)
       /\ Len(InsOf(CallAt(j), j - 1)) = 2
       /\ trace[Len(trace)] = RetEv("ping", Ok(0))

(***************************************************************************)
(* C2                                                                      *)
(***************************************************************************)
\* Entry j is a header of a registered kind that is no push and is not the
\* reply the pending request awaits.
C2Case(j) ==
    /\ IsIn(trace[j])
    /\ OpAt(j) \in RequestOps
    /\ trace[j].marker = 0
    /\ trace[j].tp \in MessageType \ PushKind
    /\ trace[j].tp # Awaited(OpAt(j))

\* C2 (reply desynchronization detection): a request awaiting X that reads a
\* header of a registered non-push kind Y # X returns
\* UnexpectedResponse{expected: X, received: Y} without reading or decoding
\* Y's body; and a request returns a decoded reply only for a frame of kind X.
C2_DesyncDetected ==
    /\ \A j \in Idx :
          C2Case(j) =>
             /\ trace[j].how = "mismatch"
             /\ trace[j].used = 0
             /\ trace[j].body = <<>>
             /\ j < Len(trace)
             /\ trace[j + 1]
                  = RetEv(OpAt(j),
                          R("Err", "UnexpectedResponse",
                            <<Awaited(OpAt(j)), trace[j].tp>>))
    /\ \A j \in Idx :
          (trace[j].k = "ret" /\ trace[j].op \in RequestOps /\ trace[j].st = "Ok")
             => /\ IsIn(trace[j - 1])
                /\ trace[j - 1].how = "deliver"
                /\ trace[j - 1].tp = Awaited(trace[j].op)

\* A get_time read a PingResponse and failed with UnexpectedResponse.
C2_Witness ==
    \E j \in Idx :
       /\ C2Case(j)
       /\ OpAt(j) = "get_time"
       /\ trace[j].tp = PingResponse
       /\ result.err = "UnexpectedResponse"

(***************************************************************************)
(* C3                                                                      *)
(***************************************************************************)
\* C3 (unknown tag resilience), as claimed: a header whose tag is not in the
\* registry has its declared length skipped, and the operation that read it
\* goes on: it does not end by a panic.
C3_UnknownTagSkipped ==
    \A j \in Idx :
       (IsIn(trace[j]) /\ trace[j].tp \notin MessageType)
          => /\ trace[j].how = "skip"
             /\ trace[j].used = trace[j].len
             /\ ~(j < Len(trace) /\ trace[j + 1].k = "ret"
                    /\ trace[j + 1].st = "Panic")

(***************************************************************************)
(* C4                                                                      *)
(***************************************************************************)
\* Entry m is a Sensor, BinarySensor or TextSensor push for key, handled.
StatePush(m, key) ==
    /\ IsIn(trace[m])
    /\ trace[m].how = "push"
    /\ trace[m].tp \in ModeledState
    /\ Field(trace[m].body, 1) = key

\* The index of the last such push among the first j entries (0: none).
RECURSIVE LastPush(_, _)
LastPush(j, key) ==
    IF j = 0 THEN 0 ELSE IF StatePush(j, key) THEN j ELSE LastPush(j - 1, key)

\* What get_last_state is to return for key after the first j entries.
Carried(j, key) ==
    IF LastPush(j, key) = 0 THEN <<"None">>
    ELSE <<"Some", StateOf(trace[LastPush(j, key)].tp,
                           trace[LastPush(j, key)].body)>>

\* C4 (state cache, last write wins): get_last_state for key k returns the
\* value of the most recent handled Sensor, BinarySensor or TextSensor push
\* with key k, and None for a key never pushed: for every call that returned,
\* and for every key at every moment.
C4_LastWriteWins ==
    /\ \A j \in Idx :
          (trace[j].k = "ret" /\ trace[j].op = "get_last_state")
             => /\ trace[j].st = "Ok"
                /\ trace[j].val = Carried(j, trace[j - 1].key)
    /\ \A key \in 0..3 :
          get_last_state(Conn, key).val = Carried(Len(trace), key)

\* Key 1 was pushed with value 1 and then with value 2, key 2 never, and
\* get_last_state for key 1 returned Measurement(2).
C4_Witness ==
    /\ \E m, n \in Idx :
          /\ m < n
          /\ StatePush(m, 1) /\ trace[m].tp = SensorStateResponse
          /\ StatePush(n, 1) /\ trace[n].tp = SensorStateResponse
          /\ Field(trace[m].body, 2) = 1
          /\ Field(trace[n].body, 2) = 2
    /\ LastPush(Len(trace), 2) = 0
    /\ trace[Len(trace)].k = "ret"
    /\ trace[Len(trace)].op = "get_last_state"
    /\ trace[Len(trace) - 1].key = 1
    /\ trace[Len(trace)].val = <<"Some", State("Measurement", 2)>>

(***************************************************************************)
(* C5                                                                      *)
(***************************************************************************)
\* Entry j is the ConnectResponse authenticate decoded, its flag set.
C5Case(j) ==
    /\ IsIn(trace[j])
    /\ OpAt(j) = "authenticate"
    /\ trace[j].tp = ConnectResponse
    /\ trace[j].how = "deliver"
    /\ Field(trace[j].body, 1) # 0

\* C5 (authentication rejection): when authenticate receives a
\* ConnectResponse with invalid_password set it returns InvalidPassword, the
\* caller holds no AuthenticatedDevice from then on, and no get_time,
\* device_info, subscribe_states, list_entities or listen is started.
C5_Rejection ==
    \A j \in Idx :
       C5Case(j) =>
          /\ j < Len(trace)
          /\ trace[j + 1] = RetEv("authenticate", Err("InvalidPassword"))
          /\ phase # "AuthenticatedDevice"
          /\ \A m \in (j + 1)..Len(trace) :
                trace[m].k = "call"
                   => trace[m].op \notin {"get_time", "device_info",
                                          "subscribe_states", "list_entities",
                                          "listen"}

\* authenticate was refused.
C5_Witness ==
    /\ \E j \in Idx : C5Case(j)
    /\ result.op = "authenticate"
    /\ result.err = "InvalidPassword"

(***************************************************************************)
(* C6                                                                      *)
(***************************************************************************)
\* The first frame of the peer, from the f-th on, that is no entity frame
\* (Len(pframes) + 1: there is none).
RECURSIVE FirstOther(_)
FirstOther(f) ==
    IF f > Len(pframes) THEN f
    ELSE IF pframes[f].marker = 0 /\ pframes[f].tp \in EntityTags
    THEN FirstOther(f + 1)
    ELSE f

\* list_entities has just returned Ok, and what it read from the f-th frame
\* of the peer on was entity frames and then the Done sentinel (the d-th).
C6Case(f, d) ==
    /\ trace # <<>>
    /\ trace[Len(trace)].k = "ret"
    /\ trace[Len(trace)].op = "list_entities"
    /\ trace[Len(trace)].st = "Ok"
    /\ f \in 1..Len(pframes)
    /\ trace[CallAt(Len(trace)) + 2].at = StartOf(f)
    /\ d = FirstOther(f)
    /\ d <= Len(pframes)
    /\ pframes[d].marker = 0
    /\ pframes[d].tp = ListEntitiesDoneResponse

\* C6 (enumeration termination): when the peer's frames from where
\* list_entities starts reading are n entity frames and then
\* ListEntitiesDoneResponse, it returns exactly n entities in arrival order,
\* each with the kind, key and name of its frame, and has read exactly to the
\* end of the Done frame: no byte of the n + 1 frames is left, none after.
C6_Enumeration ==
    \A f, d \in 1..Len(pframes) :
       C6Case(f, d) =>
          /\ Len(result.val) = d - f
          /\ \A m \in 1..(d - f) :
                /\ result.val[m].kind = EntityKind(pframes[f + m - 1].tp)
                /\ result.val[m].key = Field(pframes[f + m - 1].payload, 1)
                /\ result.val[m].name = Field(pframes[f + m - 1].payload, 2)
          /\ Pos(Conn) = StartOf(d + 1)
          /\ Len(InsOf(CallAt(Len(trace)), Len(trace))) = d - f + 1

\* A Sensor frame, a Services frame and Done gave two entities in that order.
C6_Witness ==
    \E f, d \in 1..Len(pframes) :
       /\ C6Case(f, d)
       /\ d = f + 2
       /\ pframes[f].tp = ListEntitiesSensorResponse
       /\ pframes[f + 1].tp = ListEntitiesServicesResponse
       /\ result.val[1].kind = "Sensor"
       /\ result.val[2].kind = "Services"

(***************************************************************************)
(* C7                                                                      *)
(***************************************************************************)
\* C7 (framing round trip), as claimed: reading the header and then the body
\* of a frame written by send_message gives the tag sent, a declared length
\* equal to the payload's byte count, and the payload's bytes, whatever the
\* payload's length.
C7_RoundTrip ==
    result.op = "read" =>
       /\ result.st = "Ok"
       /\ result.val.header.marker = 0
       /\ result.val.header.message_type = trace[1].tp
       /\ result.val.header.message_length = SLen(trace[1].payload)
       /\ result.val.body = trace[1].payload

(***************************************************************************)
(* C8                                                                      *)
(***************************************************************************)
\* Before entry j, op returned Ok.
Succeeded(op, j) ==
    \E i \in 1..(j - 1) :
       trace[i].k = "ret" /\ trace[i].op = op /\ trace[i].st = "Ok"

\* Entry j is a frame of kind tp written for the caller.
CallerFrame(j, tp) ==
    IsOut(trace[j]) /\ trace[j].by = "caller" /\ trace[j].tp = tp

C9_MarkerChecked ==
    \A j \in Idx :
       (IsIn(trace[j]) /\ trace[j].marker # 0)
          => /\ trace[j].how = "fail"
             /\ trace[j].body = <<>>
             /\ j < Len(trace)
             /\ trace[j + 1].k = "ret"
             /\ trace[j + 1].st = "Err"

(***************************************************************************)
(* C10                                                                     *)
(***************************************************************************)
\* C10 (no fixed cap), as claimed: after a header declaring length L, with at
\* least L bytes on the stream, the body read does not abort; it consumes
\* exactly L bytes and hands exactly those L bytes to the decoder.
C10_BodyReadUncapped ==
    (/\ result.op = "read"
     /\ result.val.hst = "Ok"
     /\ SLen(result.val.rest) >= result.val.header.message_length)
       => /\ result.st = "Ok"
          /\ SLen(cis)
               = SLen(result.val.rest) - result.val.header.message_length
          /\ result.val.body
               = STake(result.val.rest, result.val.header.message_length)

(***************************************************************************)
(* Reading one step.                                                       *)
(***************************************************************************)
\* The history entries a step adds.
NewEvents == SubSeq(trace', Len(trace) + 1, Len(trace'))

\* The bytes a step takes from the input.
Consumed == SLen(cis) - SLen(cis')

(***************************************************************************)
(* C11                                                                     *)
(***************************************************************************)
\* Entry j is a header list_entities got that is of a registered kind, no
\* push, no entity frame and not the Done sentinel.
C11Case(j) ==
    /\ IsIn(trace[j])
    /\ OpAt(j) = "list_entities"
    /\ trace[j].tp \in (MessageType \ PushKind)
                          \ (EntityTags \cup {ListEntitiesDoneResponse})

\* C11 (enumeration protocol error), as claimed: when list_entities reads a
\* non-push header that is neither an entity frame nor the Done sentinel, the
\* call ends by returning an error: it does not panic and does not return Ok.
C11_EnumErrorReturned ==
    \A j \in Idx :
       C11Case(j) =>
          /\ j < Len(trace)
          /\ trace[j + 1].k = "ret"
          /\ trace[j + 1].op = "list_entities"
          /\ trace[j + 1].st = "Err"

(***************************************************************************)
(* C12                                                                     *)
(***************************************************************************)
IsCallerOut(e) == e.k = "out" /\ e.by = "caller"

\* Entry j is the return of a disconnect, with Ok or with an error.
DisconnectReturned(j) ==
    /\ trace[j].k = "ret"
    /\ trace[j].op = "disconnect"
    /\ trace[j].st \in {"Ok", "Err"}

\* What holds once a disconnect has returned at entry j: its return is the
\* last entry of the history, the caller holds no object of the session, the
\* call wrote one DisconnectRequest frame for the caller, first, and it
\* returned Ok only on a DisconnectResponse.
AfterDisconnect(j) ==
    /\ j = Len(trace)
    /\ call = NoCall
    /\ phase = "Dropped"
    /\ trace[CallAt(j) + 1] = OutEv(DisconnectRequest, <<>>, "caller")
    /\ SelectSeq(SubSeq(trace, CallAt(j) + 1, j), IsCallerOut)
         = <<OutEv(DisconnectRequest, <<>>, "caller")>>
    /\ trace[j].st = "Ok"
          => /\ IsIn(trace[j - 1])
             /\ trace[j - 1].how = "deliver"
             /\ trace[j - 1].tp = DisconnectResponse

\* C12 (disconnect is terminal): disconnect writes exactly one
\* DisconnectRequest frame and returns Ok only after a DisconnectResponse;
\* once it has returned, with Ok or with an error, no operation starts, no
\* frame is written, no byte is read and the cache does not change.
C12_DisconnectTerminal ==
    /\ [](\A j \in Idx : DisconnectReturned(j) => AfterDisconnect(j))
    /\ [][(\E j \in Idx : DisconnectReturned(j))
             => /\ UNCHANGED <<cos, trace, states, call, phase>>
                /\ Consumed <= 0]_vars

\* A disconnect returned Ok, having read a push before its reply.
C12_Witness ==
    /\ trace # <<>>
    /\ trace[Len(trace)] = RetEv("disconnect", Ok(0))
    /\ Len(InsOf(CallAt(Len(trace)), Len(trace))) >= 2

\* A disconnect returned an error.
C12_WitnessErr ==
    /\ trace # <<>>
    /\ DisconnectReturned(Len(trace))
    /\ trace[Len(trace)].st = "Err"

(***************************************************************************)
(* C13                                                                     *)
(***************************************************************************)
\* e is a Sensor, BinarySensor or TextSensor push that was handled.
IsStatePush(e) == e.k = "in" /\ e.how = "push" /\ e.tp \in ModeledState

\* The step is a whole call of get_last_state.
GetLastStateCalled ==
    /\ NewEvents # <<>>
    /\ NewEvents[1].k = "call"
    /\ NewEvents[1].op = "get_last_state"

IsSkippedPush(e) == IsIn(e) /\ e.tp \in SkippedState

\* C14 (unmodeled state pushes are discarded): the pass that reads the header
\* of a Cover, Fan, Light, Switch, Climate, Number or Select state push with
\* declared length L reads that frame only and skips exactly L bytes after
\* the header without decoding any; it leaves the cache unchanged, writes no
\* frame and the operation stays pending, so that the next header is read
\* where the skipped body ends.
C14_SkippedStateDiscarded ==
    /\ [][\A i \in 1..Len(NewEvents) :
             IsSkippedPush(NewEvents[i])
                => /\ Len(NewEvents) = 1
                   /\ NewEvents[i].how = "skip"
                   /\ NewEvents[i].used = NewEvents[i].len
                   /\ NewEvents[i].body = <<>>
                   /\ Consumed = NewEvents[i].hdr + NewEvents[i].len
                   /\ call # NoCall
                   /\ UNCHANGED <<states, cos, call, result, phase,
                                  entities>>]_vars
    /\ [](\A i, j \in Idx :
             /\ i < j
             /\ IsSkippedPush(trace[i])
             /\ IsIn(trace[j])
             /\ \A m \in (i + 1)..(j - 1) : ~IsIn(trace[m])
             => trace[j].at = trace[i].at + trace[i].hdr + trace[i].len)

\* A Cover state push with a body was skipped while the cache held a value,
\* and the operation went on to read its reply.
C14_Witness ==
    \E i, j \in Idx :
       /\ i < j
       /\ IsSkippedPush(trace[i])
       /\ trace[i].len > 0
       /\ IsIn(trace[j])
       /\ trace[j].how = "deliver"
       /\ OpAt(j) = OpAt(i)
       /\ CallAt(j) = CallAt(i)
       /\ states # <<>>

(***************************************************************************)
(* C15                                                                     *)
(***************************************************************************)
\* e is a header receive_message_header returned to the operation.
Returned(e) ==
    /\ IsIn(e)
    /\ e.how \in {"deliver", "mismatch", "body", "entity", "done",
                  "unexpected", "header"}

\* C15 (sole read entry point): every step that consumes input is a pass of
\* receive_message_header made by a pending operation: it reads one header at
\* the position the input was at and consumes that header and the body bytes
\* used, nothing else; and the headers receive_message_header returns are
\* those with a registered tag that is not push-class: a push-class header
\* (and an unregistered one) is never returned.
C15_SoleReadEntry ==
    /\ [](\A j \in Idx :
             IsIn(trace[j])
                => /\ OpAt(j) \in RequestOps \cup {"list_entities", "listen"}
                   /\ Returned(trace[j])
                         <=> trace[j].tp \in MessageType \ PushKind)
    /\ [][Consumed > 0
             => /\ call # NoCall
                /\ Len(NewEvents) >= 1
                /\ IsIn(NewEvents[1])
                /\ NewEvents[1].at = Pos(Conn)
                /\ Consumed = NewEvents[1].hdr + NewEvents[1].used
                /\ \A i \in 2..Len(NewEvents) : ~IsIn(NewEvents[i])]_vars

\* A list_entities was handed an entity header after a push was handled in
\* the same call, and a listen has returned a header.
C15_Witness ==
    /\ \E j \in Idx : IsIn(trace[j]) /\ trace[j].how = "header"
    /\ \E i, j \in Idx :
          /\ i < j
          /\ IsIn(trace[i])
          /\ trace[i].how = "push"
          /\ IsIn(trace[j])
          /\ trace[j].how = "entity"
          /\ CallAt(i) = CallAt(j)

(***************************************************************************)
(* C16                                                                     *)
(***************************************************************************)
\* e is the header of a DisconnectRequest the peer sent.
IsDisconnectNotice(e) == IsIn(e) /\ e.tp = DisconnectRequest /\ e.marker = 0

Received(j, tp) ==
    IsIn(trace[j]) /\ trace[j].how = "deliver" /\ trace[j].tp = tp

\* The first frame written, if one was.
FirstOut(j) == IsOut(trace[j]) /\ \A i \in 1..(j - 1) : ~IsOut(trace[i])

\* C17 (handshake ordering): the bytes written are the frames of the history;
\* the first frame written is the caller's HelloRequest; a ConnectRequest is
\* written only after a HelloResponse was received; and the session is in
\* the phase AuthenticatedDevice only if a HelloResponse and, after it, a
\* ConnectResponse with invalid_password clear were received.
C17_HandshakeOrder ==
    /\ cos = WireOf(OutsOf(0, Len(trace)))
    /\ \A j \in Idx :
          FirstOut(j)
             => trace[j] = OutEv(HelloRequest,
                                 write_to_bytes(Msg(<<ClientInfo>>, 0)),
                                 "caller")
    /\ \A j \in Idx :
          (IsOut(trace[j]) /\ trace[j].tp = ConnectRequest)
             => \E i \in 1..(j - 1) : Received(i, HelloResponse)
    /\ phase = "AuthenticatedDevice"
          => \E i, j \in Idx :
                /\ i < j
                /\ Received(i, HelloResponse)
                /\ Received(j, ConnectResponse)
                /\ Field(trace[j].body, 1) = 0

\* The session is authenticated, authenticate having answered a PingRequest
\* before it read its ConnectResponse.
C17_Witness ==
    /\ phase = "AuthenticatedDevice"
    /\ \E i, j \in Idx :
          /\ i < j
          /\ IsIn(trace[i])
          /\ trace[i].how = "push"
          /\ OpAt(i) = "authenticate"
          /\ Received(j, ConnectResponse)
          /\ CallAt(i) = CallAt(j)

(***************************************************************************)
(* C18                                                                     *)
(***************************************************************************)
\* The step is a call of subscribe_states.
SubscribeStatesCalled ==
    /\ NewEvents # <<>>
    /\ NewEvents[1] = CallEv("subscribe_states")

\* C18 (subscribe_states awaits no reply): a call of subscribe_states is one
\* step that writes exactly one frame, the SubscribeStatesRequest, and
\* returns what the write returned; it reads no byte and leaves the cache
\* unchanged, whatever the input holds. No frame is ever read within a
\* subscribe_states: each state push is read by an operation that reads.
C18_SubscribeNoReply ==
    /\ [][SubscribeStatesCalled
             => /\ NewEvents
                     = <<CallEv("subscribe_states"),
                         OutEv(SubscribeStatesRequest,
                               write_to_bytes(Msg(<<>>, 0)), "caller"),
                         RetEv("subscribe_states", Ok(0))>>
                /\ cos' = SCat(cos, FrameBytes(0, SubscribeStatesRequest,
                                               write_to_bytes(Msg(<<>>, 0))))
                /\ call' = NoCall
                /\ UNCHANGED <<cis, states>>]_vars
    /\ [](\A j \in Idx :
             IsIn(trace[j])
                => OpAt(j) \in RequestOps \cup {"list_entities", "listen"})

\* subscribe_states returned with the cache empty, and a later operation
\* read a state push into the cache.
C18_Witness ==
    \E i, j \in Idx :
       /\ i < j
       /\ trace[i] = RetEv("subscribe_states", Ok(0))
       /\ \A m \in 1..i : ~IsStatePush(trace[m])
       /\ IsStatePush(trace[j])
       /\ states # <<>>

(***************************************************************************)
(* C19                                                                     *)
(***************************************************************************)
\* The first frame of the peer, from the f-th on, that is the Done sentinel
\* (Len(pframes) + 1: none).
RECURSIVE FirstDone(_)
FirstDone(f) ==
    IF f > Len(pframes) THEN f
    ELSE IF pframes[f].tp = ListEntitiesDoneResponse THEN f
    ELSE FirstDone(f + 1)

\* The entities of the entity frames among frames, the other frames left out.
RECURSIVE EntitiesIn(_)
EntitiesIn(frames) ==
    IF frames = <<>> THEN <<>>
    ELSE IF Head(frames).tp \in EntityTags
    THEN <<Entity(Head(frames).tp, Head(frames).payload)>>
            \o EntitiesIn(Tail(frames))
    ELSE EntitiesIn(Tail(frames))

\* The tags of the replies due to the requests among frames.
RECURSIVE RepliesIn(_)
RepliesIn(frames) ==
    IF frames = <<>> THEN <<>>
    ELSE IF Head(frames).tp \in RequestPush
    THEN <<ReplyType(Head(frames).tp)>> \o RepliesIn(Tail(frames))
    ELSE RepliesIn(Tail(frames))

\* The tags of the frames written.
TagsOf(evs) == [i \in 1..Len(evs) |-> evs[i].tp]

\* list_entities has just returned Ok, and what it read from the f-th frame
\* of the peer on was entity frames with pushes among them, up to the Done
\* sentinel (the d-th).
C19Case(f, d) ==
    /\ trace # <<>>
    /\ trace[Len(trace)].k = "ret"
    /\ trace[Len(trace)].op = "list_entities"
    /\ trace[Len(trace)].st = "Ok"
    /\ f \in 1..Len(pframes)
    /\ trace[CallAt(Len(trace)) + 2].at = StartOf(f)
    /\ d = FirstDone(f)
    /\ d <= Len(pframes)
    /\ \A g \in f..d :
          /\ pframes[g].marker = 0
          /\ pframes[g].tp \in EntityTags \cup PushKind
                                \cup {ListEntitiesDoneResponse}

\* The g-th frame of the peer is the last state push for its key up to the
\* d-th.
LastForKey(g, d) ==
    \A h \in (g + 1)..d :
       pframes[h].tp \in ModeledState
          => Field(pframes[h].payload, 1) # Field(pframes[g].payload, 1)

\* C19 (enumeration under interleaved pushes): when the peer's frames from
\* where list_entities starts reading are entity frames with PingRequest,
\* GetTimeRequest, DisconnectRequest and state pushes in any interleaving,
\* and then ListEntitiesDoneResponse, the list it returns is the entities of
\* the entity frames in arrival order, as without the pushes; the frames it
\* wrote are its ListEntitiesRequest and one reply per request pushed, in
\* order; each Sensor, BinarySensor or TextSensor push is in the cache (its
\* value, unless a later push has the same key); and it has read exactly
\* to the end of the Done frame.
C19_EnumerationUnderPushes ==
    \A f, d \in 1..Len(pframes) :
       C19Case(f, d) =>
          /\ result.val = EntitiesIn(SubSeq(pframes, f, d))
          /\ TagsOf(OutsOf(CallAt(Len(trace)), Len(trace)))
                = <<ListEntitiesRequest>> \o RepliesIn(SubSeq(pframes, f, d))
          /\ \A g \in f..d :
                pframes[g].tp \in ModeledState
                   => /\ Field(pframes[g].payload, 1) \in DOMAIN states
                      /\ LastForKey(g, d)
                            => states[Field(pframes[g].payload, 1)]
                                  = StateOf(pframes[g].tp, pframes[g].payload)
          /\ Pos(Conn) = StartOf(d + 1)
          /\ Len(InsOf(CallAt(Len(trace)), Len(trace))) = d - f + 1

\* An entity frame, then a push, then Done: one entity returned, the push a
\* request that was answered or a state push that is in the cache.
C19_Witness ==
    \E f, d \in 1..Len(pframes) :
       /\ C19Case(f, d)
       /\ d = f + 2
       /\ pframes[f].tp \in EntityTags
       /\ pframes[f + 1].tp \in PushKind
       /\ Len(result.val) = 1

(***************************************************************************)
(* C20                                                                     *)
(***************************************************************************)
\* Every operation that has returned so far returned Ok.
AllSucceeded == \A j \in Idx : trace[j].k = "ret" => trace[j].st = "Ok"

\* Entries i < j are two headers read one after the other.
NextHeader(i, j) ==
    /\ i < j
    /\ IsIn(trace[i])
    /\ IsIn(trace[j])
    /\ \A m \in (i + 1)..(j - 1) : ~IsIn(trace[m])

\* C20 (frame alignment), as claimed: while every operation that returned has
\* returned Ok, each header read starts where the body declared by the
\* header before it ends, and between operations the read position is the
\* start of a frame of the peer (or the end of the last one).
C20_FrameAligned ==
    AllSucceeded
       => /\ \A i, j \in Idx :
                NextHeader(i, j)
                   => trace[j].at = trace[i].at + trace[i].hdr + trace[i].len
          /\ call = NoCall
                => \E f \in 1..(Len(pframes) + 1) : Pos(Conn) = StartOf(f)

(***************************************************************************)
(* C21                                                                     *)
(***************************************************************************)
\* e is a header receive_message rejected: not the reply awaited.
IsMismatch(e) == IsIn(e) /\ e.how = "mismatch"

\* C21 (no resynchronization after a mismatch): the pass in which
\* receive_message rejects a header consumes that header and nothing else
\* and returns UnexpectedResponse at once; when the header is the one of the
\* peer's f-th frame, the bytes of that frame's body are the next bytes of
\* the input after the return; and the next header read on the connection
\* starts right after the rejected header, which for a frame with a body is
\* inside that body.
C21_NoResync ==
    /\ [][\A i \in 1..Len(NewEvents) :
             IsMismatch(NewEvents[i])
                => /\ i = 1
                   /\ Len(NewEvents) = 2
                   /\ NewEvents[1].used = 0
                   /\ NewEvents[1].body = <<>>
                   /\ Consumed = NewEvents[1].hdr
                   /\ NewEvents[2].k = "ret"
                   /\ NewEvents[2].st = "Err"
                   /\ NewEvents[2].err = "UnexpectedResponse"
                   /\ NewEvents[2].val = <<call.reply_type, NewEvents[1].tp>>
                   /\ call' = NoCall
                   /\ UNCHANGED <<cos, states>>
                   /\ \A f \in 1..Len(pframes) :
                         NewEvents[1].at = StartOf(f)
                            => STake(cis', NewEvents[1].len)
                                  = pframes[f].payload]_vars
    /\ [](\A i, j \in Idx :
             (NextHeader(i, j) /\ IsMismatch(trace[i]))
                => /\ trace[j].at = trace[i].at + trace[i].hdr
                   /\ trace[i].len > 0
                         => trace[j].at < trace[i].at + trace[i].hdr
                                             + trace[i].len)

\* A ping rejected a GetTimeResponse with a body of one byte, and the next
\* operation read its header from that byte on.
C21_Witness ==
    \E i, j \in Idx :
       /\ NextHeader(i, j)
       /\ IsMismatch(trace[i])
       /\ trace[i].tp = GetTimeResponse
       /\ trace[i].len = 1
       /\ OpAt(i) = "ping"
       /\ \E f \in 1..Len(pframes) : trace[i].at = StartOf(f)

(***************************************************************************)
(* C22                                                                     *)
(***************************************************************************)
\* A request, or listen's receive_message_header, is pending.
PendingRead == call.op \in RequestOps \cup {"listen"}

\* The peer has sent a frame with a registered tag that is not push-class,
\* which the pending operation has not read yet.
NonPushAhead ==
    \E f \in 1..Len(pframes) :
       /\ StartOf(f) >= Pos(Conn)
       /\ pframes[f].tp \in MessageType \ PushKind

\* The operation has returned to its caller, with Ok or an error.
HasReturned == call = NoCall /\ result.st \in {"Ok", "Err"}

\* The operation is over: it returned, or a panic ended it.
IsOver == call = NoCall

\* Entry j is the return of a request or of listen.
ReadReturn(j) ==
    /\ trace[j].k = "ret"
    /\ trace[j].op \in RequestOps \cup {"listen"}
    /\ trace[j].st \in {"Ok", "Err"}

\* C22 (termination of a pending read), as claimed: a request or listen
\* returns only on a header receive_message_header returned to it or on an
\* error, and a pass that handles a push does not return; once the peer has
\* sent a registered frame that is not push-class, or has closed the stream,
\* the pending call eventually returns to its caller.
C22_PendingReadReturns ==
    /\ [](\A j \in Idx :
             ReadReturn(j) => (Returned(trace[j - 1]) \/ trace[j].st = "Err"))
    /\ [](\A j \in Idx :
             (IsIn(trace[j]) /\ trace[j].how \in {"push", "skip"}
                 /\ j < Len(trace))
                => trace[j + 1].k # "ret")
    /\ (PendingRead /\ (rclosed \/ NonPushAhead)) ~> HasReturned

\* The same runs end the pending call in every case, by a return or by a
\* panic.
C22_ReturnsOrAborts ==
    (PendingRead /\ (rclosed \/ NonPushAhead)) ~> IsOver

(***************************************************************************)
(* C23                                                                     *)
(***************************************************************************)
\* e is a PingRequest, DisconnectRequest or GetTimeRequest that was handled.
IsRequestPush(e) == IsIn(e) /\ e.how = "push" /\ e.tp \in RequestPush

\* e is a frame process_unsolicited wrote.
IsAutoOut(e) == IsOut(e) /\ e.by = "auto"

\* e is the reply to a request of kind tp, written by process_unsolicited.
IsReplyTo(e, tp) ==
    /\ IsAutoOut(e)
    /\ e.tp = ReplyType(tp)
    /\ \E now \in Clock :
          now >= 0 /\ e.payload = write_to_bytes(ReplyMessage(tp, now))

\* The replies due, in order, to the requests handled among evs.
RECURSIVE RepliesDue(_)
RepliesDue(evs) ==
    IF evs = <<>> THEN <<>>
    ELSE IF IsRequestPush(Head(evs))
    THEN <<ReplyType(Head(evs).tp)>> \o RepliesDue(Tail(evs))
    ELSE RepliesDue(Tail(evs))

\* C23 (auto-replies are ordered and prompt): the entry that follows a
\* handled PingRequest, DisconnectRequest or GetTimeRequest in the history
\* is its reply, written by process_unsolicited: before any other header is
\* read and with no frame of the caller in between; the replies written are,
\* in order, those of the requests handled; and every frame of the history
\* is on the output, in that order.
C23_AutoRepliesOrdered ==
    /\ \A j \in Idx :
          IsRequestPush(trace[j])
             => /\ j < Len(trace)
                /\ IsReplyTo(trace[j + 1], trace[j].tp)
    /\ \A j \in Idx :
          IsAutoOut(trace[j]) => (j > 1 /\ IsRequestPush(trace[j - 1]))
    /\ TagsOf(SelectSeq(trace, IsAutoOut)) = RepliesDue(trace)
    /\ cos = WireOf(OutsOf(0, Len(trace)))

\* Within one call a PingRequest and a GetTimeRequest were handled, in either
\* order, and the call then read its own reply.
C23_Witness ==
    \E i, j, m \in Idx :
       /\ i < j
       /\ j < m
       /\ IsRequestPush(trace[i])
       /\ IsRequestPush(trace[j])
       /\ trace[i].tp # trace[j].tp
       /\ IsIn(trace[m])
       /\ trace[m].how = "deliver"
       /\ CallAt(i) = CallAt(m)

(***************************************************************************)
(* C24                                                                     *)
(***************************************************************************)
\* Entries i < j are handled state pushes of two kinds with the same key,
\* and no state push with that key was handled after the j-th.
Replaced(i, j) ==
    /\ i < j
    /\ IsStatePush(trace[i])
    /\ IsStatePush(trace[j])
    /\ trace[i].tp # trace[j].tp
    /\ StatePush(i, Field(trace[j].body, 1))
    /\ LastPush(Len(trace), Field(trace[j].body, 1)) = j

\* C24 (the cache is keyed by the entity key alone): the cache holds, for a
\* key, the value of the last handled Sensor, BinarySensor or TextSensor
\* push with that key, whatever its kind: a push of one kind replaces the
\* value a push of another kind stored under the same key, State variant
\* included; and get_last_state returns for an entity what the cache holds
\* for the entity's key, whatever the entity's kind.
C24_KeyedByKeyAlone ==
    /\ \A key \in DOMAIN states :
          <<"Some", states[key]>> = Carried(Len(trace), key)
    /\ \A i, j \in Idx :
          Replaced(i, j)
             => states[Field(trace[j].body, 1)]
                   = StateOf(trace[j].tp, trace[j].body)
    /\ \A j \in Idx :
          (trace[j].k = "ret" /\ trace[j].op = "get_last_state")
             => /\ trace[j].st = "Ok"
                /\ trace[j].val = Carried(j, trace[j - 1].key)

\* A Sensor push and then a BinarySensor push with key 1 were handled, and
\* get_last_state for the Sensor entity with key 1 returned the Binary value.
C24_Witness ==
    /\ \E i, j \in Idx :
          /\ Replaced(i, j)
          /\ trace[i].tp = SensorStateResponse
          /\ trace[j].tp = BinarySensorStateResponse
    /\ trace[Len(trace)].k = "ret"
    /\ trace[Len(trace)].op = "get_last_state"
    /\ trace[Len(trace) - 1].kind = "Sensor"
    /\ trace[Len(trace)].val = <<"Some", State("Binary", TRUE)>>

(***************************************************************************)
(* C25                                                                     *)
(***************************************************************************)
\* e is a push whose handling in process_unsolicited ended with an error.
IsFailedPush(e) == IsIn(e) /\ e.how = "fail" /\ e.tp \in PushKind

\* The pass reads the peer's f-th frame, a request or a cached state push.
ReadsPush(f) ==
    /\ NewEvents # <<>>
    /\ IsIn(NewEvents[1])
    /\ NewEvents[1].at = StartOf(f)
    /\ NewEvents[1].tp = pframes[f].tp
    /\ NewEvents[1].len = SLen(pframes[f].payload)
    /\ pframes[f].tp \in RequestPush \cup ModeledState

\* The pass ends the pending call with the error err, the cache as it was.
FailsWith(err) ==
    /\ NewEvents[Len(NewEvents)]
          = RetEv(call.op, [st |-> "Err", err |-> err, val |-> 0])
    /\ call # NoCall
    /\ call' = NoCall
    /\ result' = [op |-> call.op, st |-> "Err", err |-> err, val |-> 0]
    /\ states' = states

\* C25 (a failure while a push is handled fails the pending operation): the
\* pass in which the handling of a push fails returns the error from the
\* pending call in that same step, having read that one frame and no further
\* header, with the cache as it was before the push: Protobuf when the body
\* does not decode, the I/O error when the reply cannot be written (nothing
\* is added to the output), SystemTime when the clock cannot be read for a
\* GetTimeResponse (no reply is written). And a push with a body that does
\* not decode, or a request read while the output refuses writes, always
\* ends the call in this way.
C25_PushFailureFailsCall ==
    /\ [][\A i \in 1..Len(NewEvents) :
             IsFailedPush(NewEvents[i])
                => /\ i = Len(NewEvents) - 1
                   /\ FailsWith(NewEvents[Len(NewEvents)].err)
                   /\ NewEvents[Len(NewEvents)].err
                         \in {"Protobuf", "Io", "SystemTime"}
                   /\ \A m \in 1..i :
                         /\ IsIn(NewEvents[m])
                         /\ NewEvents[m].at = Pos(Conn)
                   /\ Consumed = NewEvents[i].hdr + NewEvents[i].len
                   /\ NewEvents[Len(NewEvents)].err = "Io"
                         => (wbroken /\ cos' = cos
                               /\ NewEvents[i].tp \in RequestPush)
                   /\ NewEvents[Len(NewEvents)].err = "SystemTime"
                         => (cos' = cos /\ NewEvents[i].tp = GetTimeRequest)]_vars
    /\ [][\A f \in 1..Len(pframes) :
             ReadsPush(f)
                => /\ Malformed(pframes[f].payload) => FailsWith("Protobuf")
                   /\ (~Malformed(pframes[f].payload) /\ wbroken
                          /\ pframes[f].tp \in RequestPush)
                         => (FailsWith("Io") \/ FailsWith("SystemTime"))]_vars

\* One call ended with Protobuf on a state push whose body does not decode;
\* the next cached a state push and then ended with SystemTime on a
\* GetTimeRequest, the cache still holding the value.
C25_Witness ==
    /\ states # <<>>
    /\ trace[Len(trace)].k = "ret"
    /\ trace[Len(trace)].err = "SystemTime"
    /\ IsFailedPush(trace[Len(trace) - 1])
    /\ \E j \in Idx :
          /\ IsFailedPush(trace[j])
          /\ trace[j].tp = SensorStateResponse
          /\ trace[j + 1].k = "ret"
          /\ trace[j + 1].err = "Protobuf"

\* A call ended with the I/O error on the reply to a PingRequest.
C25_WitnessIo ==
    /\ wbroken
    /\ trace[Len(trace)].k = "ret"
    /\ trace[Len(trace)].err = "Io"
    /\ IsFailedPush(trace[Len(trace) - 1])
    /\ trace[Len(trace) - 1].tp = PingRequest

====
